---------------------------- MODULE Spec2Model ----------------------------
(***************************************************************************)
(* daykit (src/src/index.ts): timezone-aware formatting, offset and DST    *)
(* inference on top of the host's Date and Intl services.                  *)
(*                                                                         *)
(* Time values are whole seconds since 1970-01-01T00:00:00Z (every value   *)
(* the modelled operations exchange with the host is a multiple of 1000    *)
(* ms).  A Date object is a record [valid, t]; new Date("invalid") is      *)
(* InvalidDate.  Text is a sequence of one-character strings, so that      *)
(* patterns can be scanned and rendered values can be compared.            *)
(*                                                                         *)
(* The host is part of the environment: its timezone database, the zone    *)
(* ids it accepts, and its LOCAL timezone (the TZ the process runs in),    *)
(* which decides how new Date(text), new Date(y, m, d), getHours() and     *)
(* setDate() read and write civil fields.                                  *)
(***************************************************************************)
EXTENDS Integers, Sequences, FiniteSets, TLC

VARIABLES host, pc, op, args, result, frame, objects

vars == <<host, pc, op, args, result, frame, objects>>

-----------------------------------------------------------------------------
(* Proleptic Gregorian calendar, as the host's Date implements it.         *)

DaysFromCivil(y, m, d) ==
  LET Days(era, yoe, doy) ==
        era * 146097 + yoe * 365 + yoe \div 4 - yoe \div 100 + doy - 719468
      FromYear(yy) ==
        Days(yy \div 400, yy % 400,
             (153 * ((m + 9) % 12) + 2) \div 5 + d - 1)
  IN  FromYear(IF m <= 2 THEN y - 1 ELSE y)

CivilFromDays(z) ==
  LET Civil(era, yoe, doy, mp) ==
        [year |-> yoe + era * 400 + (IF mp < 10 THEN 0 ELSE 1),
         month |-> IF mp < 10 THEN mp + 3 ELSE mp - 9,
         day |-> doy - (153 * mp + 2) \div 5 + 1]
      FromDoy(era, yoe, doy) == Civil(era, yoe, doy, (5 * doy + 2) \div 153)
      FromYoe(era, doe, yoe) ==
        FromDoy(era, yoe, doe - (365 * yoe + yoe \div 4 - yoe \div 100))
      FromDoe(era, doe) ==
        FromYoe(era, doe,
                (doe - doe \div 1460 + doe \div 36524 - doe \div 146096)
                  \div 365)
      FromEra(zz, era) == FromDoe(era, zz - era * 146097)
      FromShifted(zz) == FromEra(zz, zz \div 146097)
  IN  FromShifted(z + 719468)

\* 0 = Sunday .. 6 = Saturday; 1970-01-01 was a Thursday
Weekday(days) == (days + 4) % 7

\* Civil fields of the naive (zone-less) time value s, in seconds.
FieldsOf(s) ==
  LET Fields(days, sod, c) ==
        [year |-> c.year, month |-> c.month, day |-> c.day,
         hour |-> sod \div 3600, minute |-> (sod % 3600) \div 60,
         second |-> sod % 60, weekday |-> Weekday(days)]
  IN  Fields(s \div 86400, s % 86400, CivilFromDays(s \div 86400))

\* The naive time value of civil fields; as Date.UTC and MakeDay do, a day,
\* hour, minute or second outside its range carries into the larger fields.
NaiveOf(y, m, d, h, mi, s) ==
  DaysFromCivil(y, m, 1) * 86400 + (d - 1) * 86400 + h * 3600 + mi * 60 + s

\* Date.UTC(y, m, d, h, mi, s) / new Date("....Z")
UTC(y, m, d, h, mi, s) == NaiveOf(y, m, d, h, mi, s)

-----------------------------------------------------------------------------
(* The host's timezone database.                                           *)

FirstSundayOnOrAfter(y, m, d) ==
  LET Sunday(days) == days + ((7 - Weekday(days)) % 7)
  IN  Sunday(DaysFromCivil(y, m, d))

UTCYear(t) == CivilFromDays(t \div 86400).year

\* The zone ids the host's Intl.DateTimeFormat accepts.
HostZones ==
  {"UTC", "Asia/Tokyo", "America/New_York", "Europe/London", "Australia/Sydney"}

\* The ids Intl.supportedValuesOf("timeZone") lists.
SupportedValues == HostZones

\* The rule of zone z: within a year, offset `inside' (minutes from UTC) is
\* observed from fromSecond seconds after 00:00 UTC of the first Sunday on
\* or after fromMonth/fromDay until toSecond seconds after 00:00 UTC of the
\* first Sunday on or after toMonth/toDay, and offset `outside' otherwise.
\* New York: 02:00 EST on the second Sunday of March until 02:00 EDT on the
\* first Sunday of November.  London: 01:00 UTC on the last Sundays of March
\* and October.  Sydney: standard time from 03:00 AEDT on the first Sunday of
\* April until 02:00 AEST on the first Sunday of October.
ZoneRules(z) ==
  CASE z = "UTC" ->
         [inside |-> 0, outside |-> 0, fromMonth |-> 1, fromDay |-> 1,
          fromSecond |-> 0, toMonth |-> 1, toDay |-> 1, toSecond |-> 0]
    [] z = "Asia/Tokyo" ->
         [inside |-> 540, outside |-> 540, fromMonth |-> 1, fromDay |-> 1,
          fromSecond |-> 0, toMonth |-> 1, toDay |-> 1, toSecond |-> 0]
    [] z = "America/New_York" ->
         [inside |-> -240, outside |-> -300, fromMonth |-> 3, fromDay |-> 8,
          fromSecond |-> 7 * 3600, toMonth |-> 11, toDay |-> 1,
          toSecond |-> 6 * 3600]
    [] z = "Europe/London" ->
         [inside |-> 60, outside |-> 0, fromMonth |-> 3, fromDay |-> 25,
          fromSecond |-> 3600, toMonth |-> 10, toDay |-> 25,
          toSecond |-> 3600]
    [] z = "Australia/Sydney" ->
         [inside |-> 600, outside |-> 660, fromMonth |-> 4, fromDay |-> 1,
          fromSecond |-> 0 - 8 * 3600, toMonth |-> 10, toDay |-> 1,
          toSecond |-> 0 - 8 * 3600]

\* Offset from UTC, in minutes, that zone z observes at instant t.
ZoneOffset(z, t) ==
  LET Observed(r, y) ==
        IF /\ t >= FirstSundayOnOrAfter(y, r.fromMonth, r.fromDay) * 86400
                     + r.fromSecond
           /\ t <  FirstSundayOnOrAfter(y, r.toMonth, r.toDay) * 86400
                     + r.toSecond
        THEN r.inside ELSE r.outside
  IN  Observed(ZoneRules(z), UTCYear(t))

\* The offsets zone z ever observes (standard and daylight).
ZoneOffsets(z) ==
  LET Both(r) == {r.inside, r.outside}
  IN  Both(ZoneRules(z))

\* Wall-clock fields of instant t in zone z.
CivilIn(z, t) == FieldsOf(t + ZoneOffset(z, t) * 60)

Min(S) == CHOOSE x \in S : \A y \in S : x <= y
Max(S) == CHOOSE x \in S : \A y \in S : x >= y

\* ECMAScript UTC(t_local): the instant whose wall clock in zone z reads the
\* naive value s.  A repeated wall-clock time (clocks set back) denotes the
\* earlier instant; a skipped one (clocks set forward) is read with the
\* offset in force before the transition.
LocalToInstant(z, s) ==
  LET Pick(offsets, good) ==
        IF good # {} THEN Min(good) ELSE s - Min(offsets) * 60
      Among(offsets) ==
        Pick(offsets,
             {u \in {s - o * 60 : o \in offsets} : u + ZoneOffset(z, u) * 60 = s})
  IN  Among(ZoneOffsets(z))

-----------------------------------------------------------------------------
(* JavaScript values.                                                      *)

\* A Date object: its time value is t seconds and ms milliseconds after the
\* epoch, or NaN when valid is FALSE.
DateOf(t) == [valid |-> TRUE, t |-> t, ms |-> 0]
DateMs(t, ms) == [valid |-> TRUE, t |-> t, ms |-> ms]
InvalidDate == [valid |-> FALSE, t |-> 0, ms |-> 0]

\* A Number that may be NaN.
Num(v) == [nan |-> FALSE, v |-> v]
NaN == [nan |-> TRUE, v |-> 0]

\* The outcome of an expression that may throw.
Threw == [threw |-> TRUE]
Value(v) == [threw |-> FALSE, value |-> v]

-----------------------------------------------------------------------------
(* Host services: Date and Intl.                                           *)

\* d.toLocaleString("en-US", {timeZone}): an invalid Date renders as
\* "Invalid Date" before the zone id is looked at; a zone id the host rejects
\* raises RangeError; otherwise the text is "M/D/YYYY, h:mm:ss AM|PM", the
\* wall clock of d in the zone (milliseconds are not rendered).
toLocaleString(d, timeZone) ==
  LET Rendered(c) ==
        Value([invalid |-> FALSE, month |-> c.month, day |-> c.day,
               year |-> c.year,
               hour |-> IF c.hour % 12 = 0 THEN 12 ELSE c.hour % 12,
               minute |-> c.minute, second |-> c.second,
               dayPeriod |-> IF c.hour >= 12 THEN "PM" ELSE "AM"])
  IN  IF ~d.valid THEN Value([invalid |-> TRUE])
      ELSE IF timeZone \notin HostZones THEN Threw
      ELSE Rendered(CivilIn(timeZone, d.t))

\* new Date(text) for a text toLocaleString produced: the fields are read as
\* a wall clock in the host's LOCAL zone; "Invalid Date" does not parse.
ParseLocaleString(text) ==
  IF text.invalid THEN InvalidDate
  ELSE LET h24 == (text.hour % 12) + (IF text.dayPeriod = "PM" THEN 12 ELSE 0)
       IN  DateOf(LocalToInstant(host,
                    NaiveOf(text.year, text.month, text.day,
                            h24, text.minute, text.second)))

\* new Date(year, monthIndex, day, h, mi, s): fields in the host's local zone.
LocalDate(y, monthIndex, d, h, mi, s) ==
  DateOf(LocalToInstant(host, NaiveOf(y, monthIndex + 1, d, h, mi, s)))

\* The host-local civil fields of a valid Date (getFullYear, getDate,
\* getHours, ...).
LocalFields(d) == CivilIn(host, d.t)

\* The naive local time value of a valid Date, in seconds.
LocalNaive(d) == d.t + ZoneOffset(host, d.t) * 60

\* The day moved by elapsed time, d.setTime(d.getTime() + n * 86400000),
\* instead of on the local calendar.
SetDatePlusElapsed(d, n) ==
  IF ~d.valid THEN d
  ELSE DateMs(d.t + n * 86400, d.ms)

\* d.setDate(d.getDate() + n): the local day moves, the local time of day
\* stays, and the result is read back as a local wall clock.
SetDatePlus(d, n) ==
  IF ~d.valid THEN d
  ELSE DateMs(LocalToInstant(host, LocalNaive(d) + n * 86400), d.ms)

\* The short zone name Intl renders for locale en-US.
ZoneAbbreviation(z, t) ==
  LET Named(offset) ==
        CASE z = "UTC" -> "UTC"
          [] z = "Asia/Tokyo" -> "GMT+9"
          [] z = "America/New_York" -> IF offset = -240 THEN "EDT" ELSE "EST"
          [] z = "Europe/London" -> IF offset = 60 THEN "GMT+1" ELSE "GMT"
          [] z = "Australia/Sydney" ->
               IF offset = 660 THEN "GMT+11" ELSE "GMT+10"
  IN  Named(ZoneOffset(z, t))

-----------------------------------------------------------------------------
(* getTimezoneInfo, getTimezoneOffset, isDST, getDSTTransitions.           *)

\* The offset taken against d itself instead of against the re-parsed UTC
\* rendering of d.
RenderedOffsetFromInstant(d, timeZone) ==
  LET Offset(tzDate) ==
        IF d.valid /\ tzDate.valid THEN Num((tzDate.t - d.t) \div 60)
        ELSE NaN
  IN  Offset(ParseLocaleString(toLocaleString(d, timeZone).value))

\* (tzDate.getTime() - utcDate.getTime()) / 60000 for the two re-parsed
\* renderings of d; NaN when d is invalid.  Called only where neither
\* rendering throws.  Zone offsets are whole minutes, so the quotient is an
\* integer.
RenderedOffset(d, timeZone) ==
  LET Offset(utcDate, tzDate) ==
        IF utcDate.valid /\ tzDate.valid
        THEN Num((tzDate.t - utcDate.t) \div 60)
        ELSE NaN
  IN  Offset(ParseLocaleString(toLocaleString(d, "UTC").value),
             ParseLocaleString(toLocaleString(d, timeZone).value))

NYStandardOffset == -300

\* The decision taken against the smaller of the two reference offsets.
InferDSTSmaller(d, timeZone) ==
  LET Decide(offset, janOffset, julOffset) ==
        IF timeZone = "America/New_York" THEN offset # NYStandardOffset
        ELSE IF timeZone = "UTC" THEN FALSE
        ELSE /\ offset = Min({janOffset, julOffset})
             /\ janOffset # julOffset
      InYear(year) ==
        Decide(RenderedOffset(d, timeZone).v,
               RenderedOffset(LocalDate(year, 0, 1, 0, 0, 0), timeZone).v,
               RenderedOffset(LocalDate(year, 6, 1, 0, 0, 0), timeZone).v)
  IN  InYear(LocalFields(d).year)

\* The isDST decision of getTimezoneInfo for a valid d and an accepted zone.
InferDST(d, timeZone) ==
  LET Decide(offset, janOffset, julOffset) ==
        IF timeZone = "America/New_York" THEN offset # NYStandardOffset
        ELSE IF timeZone = "UTC" THEN FALSE
        ELSE /\ offset = Max({janOffset, julOffset})
             /\ janOffset # julOffset
      InYear(year) ==
        Decide(RenderedOffset(d, timeZone).v,
               RenderedOffset(LocalDate(year, 0, 1, 0, 0, 0), timeZone).v,
               RenderedOffset(LocalDate(year, 6, 1, 0, 0, 0), timeZone).v)
  IN  InYear(LocalFields(d).year)

TimezoneFallback(timeZone) ==
  [name |-> timeZone, offset |-> Num(0), isDST |-> FALSE,
   abbreviation |-> "UTC"]

\* The try body throws when the zone id is rejected (toLocaleString on a
\* valid d, or the Intl.DateTimeFormat constructor) and when d is invalid
\* (formatToParts); the catch returns the fallback.
getTimezoneInfo(d, timeZone) ==
  IF timeZone \notin HostZones \/ ~d.valid
  THEN TimezoneFallback(timeZone)
  ELSE [name |-> timeZone,
        offset |-> RenderedOffset(d, timeZone),
        isDST |-> InferDST(d, timeZone),
        abbreviation |-> ZoneAbbreviation(timeZone, d.t)]

\* toLocaleString throws only for a valid d with a rejected zone id.
getTimezoneOffset(d, timeZone) ==
  IF toLocaleString(d, timeZone).threw THEN Num(0)
  ELSE RenderedOffset(d, timeZone)

\* isDST(timeZone) reads the clock: now is the current instant.
isDST(now, timeZone) == getTimezoneInfo(now, timeZone).isDST

\* A result of getDSTTransitions: start and end are null where hasStart /
\* hasEnd is FALSE.
Window(transitions) ==
  [start |-> IF Len(transitions) >= 1 THEN transitions[1] ELSE InvalidDate,
   end |-> IF Len(transitions) >= 2 THEN transitions[2] ELSE InvalidDate,
   hasStart |-> Len(transitions) >= 1,
   hasEnd |-> Len(transitions) >= 2]

NoTransitions == Window(<<>>)

\* getDSTTransitions without the supportedValuesOf check.
getDSTTransitionsUnvalidated(timeZone, year) ==
  IF timeZone = "UTC" THEN [returns |-> TRUE, window |-> NoTransitions]
  ELSE IF year = 2024 /\ timeZone = "America/New_York"
  THEN [returns |-> TRUE,
        window |-> Window(<<DateOf(UTC(2024, 3, 10, 7, 0, 0)),
                            DateOf(UTC(2024, 11, 3, 6, 0, 0))>>)]
  ELSE [returns |-> FALSE,
        frame |-> [d |-> LocalDate(year, 0, 1, 0, 0, 0),
                   end |-> LocalDate(year, 11, 31, 0, 0, 0),
                   transitions |-> <<>>]]

\* getDSTTransitions without the 2024 New York constants.
getDSTTransitionsScanOnly(timeZone, year) ==
  IF timeZone = "UTC" THEN [returns |-> TRUE, window |-> NoTransitions]
  ELSE IF timeZone \notin SupportedValues
  THEN [returns |-> TRUE, window |-> NoTransitions]
  ELSE [returns |-> FALSE,
        frame |-> [d |-> LocalDate(year, 0, 1, 0, 0, 0),
                   end |-> LocalDate(year, 11, 31, 0, 0, 0),
                   transitions |-> <<>>]]

\* The part of getDSTTransitions before its loop: either a returned window
\* or the loop's initial frame (d, end, transitions).
getDSTTransitions(timeZone, year) ==
  IF timeZone = "UTC" THEN [returns |-> TRUE, window |-> NoTransitions]
  ELSE IF timeZone \notin SupportedValues
  THEN [returns |-> TRUE, window |-> NoTransitions]
  ELSE IF year = 2024 /\ timeZone = "America/New_York"
  THEN [returns |-> TRUE,
        window |-> Window(<<DateOf(UTC(2024, 3, 10, 7, 0, 0)),
                            DateOf(UTC(2024, 11, 3, 6, 0, 0))>>)]
  ELSE [returns |-> FALSE,
        frame |-> [d |-> LocalDate(year, 0, 1, 0, 0, 0),
                   end |-> LocalDate(year, 11, 31, 0, 0, 0),
                   transitions |-> <<>>]]

\* Whether the loop body pushes day d.
IsTransitionDay(d, timeZone, transitions) ==
  \/ Len(transitions) = 0
  \/ getTimezoneInfo(d, timeZone).isDST
       # getTimezoneInfo(DateMs(d.t - 86400, d.ms), timeZone).isDST

\* One iteration of the loop: the body, then d.setDate(d.getDate() + 1).
ScanBody(f, timeZone) ==
  [d |-> SetDatePlus(f.d, 1),
   end |-> f.end,
   transitions |-> IF IsTransitionDay(f.d, timeZone, f.transitions)
                   THEN Append(f.transitions, f.d) ELSE f.transitions]

-----------------------------------------------------------------------------
(* Text: sequences of one-character strings.                               *)

Digits == <<"0", "1", "2", "3", "4", "5", "6", "7", "8", "9">>

\* n.toString() for a natural number n
RECURSIVE ToText(_)
ToText(n) ==
  IF n < 10 THEN <<Digits[n + 1]>>
  ELSE ToText(n \div 10) \o <<Digits[(n % 10) + 1]>>

\* text.padStart(2, "0")
PadStart2(text) == IF Len(text) < 2 THEN <<"0">> \o text ELSE text

\* text.slice(-2)
SliceLast2(text) ==
  IF Len(text) <= 2 THEN text ELSE SubSeq(text, Len(text) - 1, Len(text))

Rep(c, n) == [i \in 1 .. n |-> c]

\* Whether text has part as a substring starting at position i.
HasAt(text, part, i) ==
  /\ i + Len(part) - 1 <= Len(text)
  /\ \A k \in 1 .. Len(part) : text[i + k - 1] = part[k]

Contains(text, part) == \E i \in 1 .. Len(text) : HasAt(text, part, i)

\* The names Intl renders for locale en-US; the short forms are the first
\* three letters.
MonthNames ==
  << <<"J", "a", "n", "u", "a", "r", "y">>,
     <<"F", "e", "b", "r", "u", "a", "r", "y">>,
     <<"M", "a", "r", "c", "h">>,
     <<"A", "p", "r", "i", "l">>,
     <<"M", "a", "y">>,
     <<"J", "u", "n", "e">>,
     <<"J", "u", "l", "y">>,
     <<"A", "u", "g", "u", "s", "t">>,
     <<"S", "e", "p", "t", "e", "m", "b", "e", "r">>,
     <<"O", "c", "t", "o", "b", "e", "r">>,
     <<"N", "o", "v", "e", "m", "b", "e", "r">>,
     <<"D", "e", "c", "e", "m", "b", "e", "r">> >>
DayNames ==
  << <<"S", "u", "n", "d", "a", "y">>,
     <<"M", "o", "n", "d", "a", "y">>,
     <<"T", "u", "e", "s", "d", "a", "y">>,
     <<"W", "e", "d", "n", "e", "s", "d", "a", "y">>,
     <<"T", "h", "u", "r", "s", "d", "a", "y">>,
     <<"F", "r", "i", "d", "a", "y">>,
     <<"S", "a", "t", "u", "r", "d", "a", "y">> >>

ShortName(name) == SubSeq(name, 1, 3)

\* The characters of the short zone names.
ZoneNameText(abbr) ==
  CASE abbr = "UTC" -> <<"U", "T", "C">>
    [] abbr = "EST" -> <<"E", "S", "T">>
    [] abbr = "EDT" -> <<"E", "D", "T">>
    [] abbr = "GMT" -> <<"G", "M", "T">>
    [] abbr = "GMT+1" -> <<"G", "M", "T", "+", "1">>
    [] abbr = "GMT+9" -> <<"G", "M", "T", "+", "9">>
    [] abbr = "GMT+10" -> <<"G", "M", "T", "+", "1", "0">>
    [] abbr = "GMT+11" -> <<"G", "M", "T", "+", "1", "1">>

InvalidDateText == <<"I", "n", "v", "a", "l", "i", "d", " ", "D", "a", "t", "e">>

-----------------------------------------------------------------------------
(* format.                                                                 *)

\* The locale tags the host's Intl constructors accept; any other tag raises
\* RangeError.
HostLocales == {"en-US"}

\* The alternatives with every short token ahead of the longer ones.
tokenRegexShortestFirst ==
  << <<"A">>, <<"a">>, <<"Z">>, Rep("Y", 2), Rep("M", 2), Rep("D", 2),
     Rep("H", 2), Rep("h", 2), Rep("m", 2), Rep("s", 2), Rep("M", 3),
     Rep("d", 3), Rep("Y", 4), Rep("M", 4), Rep("d", 4) >>

\* /YYYY|MMMM|dddd|MMM|ddd|YY|MM|DD|HH|hh|mm|ss|A|a|Z/g: the alternatives in
\* the order the regular expression tries them.
tokenRegex ==
  << Rep("Y", 4), Rep("M", 4), Rep("d", 4), Rep("M", 3), Rep("d", 3),
     Rep("Y", 2), Rep("M", 2), Rep("D", 2), Rep("H", 2), Rep("h", 2),
     Rep("m", 2), Rep("s", 2), <<"A">>, <<"a">>, <<"Z">> >>

\* The index of the alternative the regular expression matches at position
\* i of fmt (the first in order that fits), 0 when none does.
MatchAt(fmt, i) ==
  LET First(matches) == IF matches # {} THEN Min(matches) ELSE 0
  IN  First({k \in 1 .. Len(tokenRegex) : HasAt(fmt, tokenRegex[k], i)})

\* A second pass over a substituted value: the one-character tokens "A", "a"
\* and "Z" inside it are replaced by their values.
RECURSIVE RescanValue(_, _)
RescanValue(value, tokenMap) ==
  IF value = <<>> THEN <<>>
  ELSE (IF <<Head(value)>> \in {<<"A">>, <<"a">>, <<"Z">>}
        THEN tokenMap[<<Head(value)>>] ELSE <<Head(value)>>)
         \o RescanValue(Tail(value), tokenMap)

\* The replacement with every substituted value scanned again for tokens.
RECURSIVE ReplaceTokensRescanning(_, _, _)
ReplaceTokensRescanning(fmt, i, tokenMap) ==
  IF i > Len(fmt) THEN <<>>
  ELSE LET k == MatchAt(fmt, i)
       IN  IF k = 0
           THEN <<fmt[i]>> \o ReplaceTokensRescanning(fmt, i + 1, tokenMap)
           ELSE RescanValue(IF tokenRegex[k] \in DOMAIN tokenMap
                            THEN tokenMap[tokenRegex[k]] ELSE tokenRegex[k],
                            tokenMap)
                  \o ReplaceTokensRescanning(fmt, i + Len(tokenRegex[k]),
                                             tokenMap)

\* The output built from the matches alone: characters between matches are
\* dropped.
RECURSIVE ReplaceMatchesOnly(_, _, _)
ReplaceMatchesOnly(fmt, i, tokenMap) ==
  IF i > Len(fmt) THEN <<>>
  ELSE LET k == MatchAt(fmt, i)
       IN  IF k = 0 THEN ReplaceMatchesOnly(fmt, i + 1, tokenMap)
           ELSE (IF tokenRegex[k] \in DOMAIN tokenMap
                 THEN tokenMap[tokenRegex[k]] ELSE tokenRegex[k])
                  \o ReplaceMatchesOnly(fmt, i + Len(tokenRegex[k]), tokenMap)

\* fmt.replace(tokenRegex, (match) => tokenMap[match] ?? match) from
\* position i on: a match is replaced and the scan resumes after it; a
\* character no alternative matches at is copied.
RECURSIVE ReplaceTokens(_, _, _)
ReplaceTokens(fmt, i, tokenMap) ==
  IF i > Len(fmt) THEN <<>>
  ELSE LET k == MatchAt(fmt, i)
       IN  IF k = 0
           THEN <<fmt[i]>> \o ReplaceTokens(fmt, i + 1, tokenMap)
           ELSE (IF tokenRegex[k] \in DOMAIN tokenMap
                 THEN tokenMap[tokenRegex[k]] ELSE tokenRegex[k])
                  \o ReplaceTokens(fmt, i + Len(tokenRegex[k]), tokenMap)

\* The choice with the pattern ahead of the option: a 12-hour token in the
\* pattern decides even when hour12 is given.
UseHour12PatternFirst(fmt, hour12) ==
  \/ Contains(fmt, <<"a">>)
  \/ Contains(fmt, <<"A">>)
  \/ Contains(fmt, <<"h", "h">>)
  \/ hour12 = "true"

\* hour12 ?? /a|A|hh/.test(fmt); the option is "true", "false" or
\* "undefined" (not given).
UseHour12(fmt, hour12) ==
  IF hour12 # "undefined" THEN hour12 = "true"
  ELSE \/ Contains(fmt, <<"a">>)
       \/ Contains(fmt, <<"A">>)
       \/ Contains(fmt, <<"h", "h">>)

LowerCase(text) ==
  [i \in 1 .. Len(text) |->
     CASE text[i] = "A" -> "a" [] text[i] = "P" -> "p"
       [] text[i] = "M" -> "m" [] OTHER -> text[i]]

\* tzDate: d itself for "UTC", else the zone's wall clock of d re-parsed as a
\* host-local time.
TzDate(d, timeZone) ==
  IF timeZone = "UTC" THEN d
  ELSE ParseLocaleString(toLocaleString(d, timeZone).value)

\* tokenMap: the token values of format for a valid d, an accepted zone and
\* locale.
TokenMap(d, fmt, timeZone, hour12) ==
  LET Tokens(useHour12, hour24, minute, second, values, year,
             monthName, dayName, ampm) ==
        (Rep("Y", 4) :> year)
        @@ (Rep("Y", 2) :> SliceLast2(year))
        @@ (Rep("M", 4) :> monthName)
        @@ (Rep("M", 3) :> ShortName(monthName))
        @@ (Rep("M", 2) :> PadStart2(ToText(values.month)))
        @@ (Rep("D", 2) :> PadStart2(ToText(values.day)))
        @@ (Rep("d", 4) :> dayName)
        @@ (Rep("d", 3) :> ShortName(dayName))
        @@ (Rep("H", 2) :> PadStart2(ToText(hour24)))
        @@ (Rep("h", 2) :> IF useHour12
                           THEN PadStart2(ToText(IF hour24 % 12 = 0 THEN 12
                                                 ELSE hour24 % 12))
                           ELSE PadStart2(ToText(hour24)))
        @@ (Rep("m", 2) :> minute)
        @@ (Rep("s", 2) :> second)
        @@ (<<"A">> :> ampm)
        @@ (<<"a">> :> LowerCase(ampm))
        @@ (<<"Z">> :> ZoneNameText(ZoneAbbreviation(timeZone, d.t)))
      \* clock: tzDate.getHours/getMinutes/getSeconds (getUTC* for "UTC");
      \* values: formatter.formatToParts(d), the civil date of d in the
      \* zone; named: monthFormatter/dayFormatter.format(tzDate), the civil
      \* date of tzDate in the zone
      Parts(useHour12, clock, values, named) ==
        Tokens(useHour12, clock.hour,
               PadStart2(ToText(clock.minute)),
               PadStart2(ToText(clock.second)),
               values, ToText(values.year),
               MonthNames[named.month], DayNames[named.weekday + 1],
               IF useHour12
               THEN (IF clock.hour >= 12 THEN <<"P", "M">>
                     ELSE <<"A", "M">>)
               ELSE <<>>)
      Of(tzDate) ==
        Parts(UseHour12(fmt, hour12),
              IF timeZone = "UTC" THEN FieldsOf(d.t) ELSE LocalFields(tzDate),
              CivilIn(timeZone, d.t),
              CivilIn(timeZone, tzDate.t))
  IN  Of(TzDate(d, timeZone))

\* format without its isNaN(d.getTime()) guard: an invalid d reaches
\* formatToParts, which raises RangeError.
formatWithoutInvalidGuard(d, fmt, locale, timeZone, hour12) ==
  IF ~d.valid \/ timeZone \notin HostZones \/ locale \notin HostLocales
  THEN Threw
  ELSE Value(ReplaceTokens(fmt, 1, TokenMap(d, fmt, timeZone, hour12)))

\* format has no try: a zone id or locale the host rejects raises RangeError
\* out of toLocaleString or the Intl.DateTimeFormat constructor.
format(d, fmt, locale, timeZone, hour12) ==
  IF ~d.valid THEN Value(InvalidDateText)
  ELSE IF timeZone \notin HostZones \/ locale \notin HostLocales THEN Threw
  ELSE Value(ReplaceTokens(fmt, 1, TokenMap(d, fmt, timeZone, hour12)))

-----------------------------------------------------------------------------
(* toTimezone, add, subtract, diff, isBefore, isAfter, startOf, fromNow.   *)

\* new Date(date) for a Date argument: a Date with the same time value.
createMoment(d) == IF d.valid THEN DateMs(d.t, d.ms) ELSE InvalidDate

\* toTimezone without its "UTC" branch: the UTC fields go through
\* formatToParts and new Date(year, month, ...) like those of any zone.
toTimezoneWithoutUTCBranch(d, timeZone, midnight24) ==
  LET Local(values) ==
        LocalDate(values.year, values.month - 1, values.day,
                  IF values.hour = 0 /\ midnight24 THEN 24 ELSE values.hour,
                  values.minute, values.second)
  IN  IF timeZone \notin HostZones \/ ~d.valid
      THEN d
      ELSE Local(CivilIn(timeZone, d.t))

\* formatToParts with hour12: false renders the hour of midnight as 0 or,
\* on hosts that resolve the option to the h24 cycle, as 24.
toTimezone(d, timeZone, midnight24) ==
  LET Local(values) ==
        LocalDate(values.year, values.month - 1, values.day,
                  IF values.hour = 0 /\ midnight24 THEN 24 ELSE values.hour,
                  values.minute, values.second)
  IN  IF timeZone = "UTC"
      THEN (IF d.valid THEN DateOf(d.t) ELSE InvalidDate)
      ELSE IF timeZone \notin HostZones \/ ~d.valid
      THEN d  \* catch: new Date(date)
      ELSE Local(CivilIn(timeZone, d.t))

\* d.setX(d.getX() + n) on the local fields: the local wall clock moves by
\* secs seconds and ms milliseconds and is read back as a local time.
SetLocalPlus(d, secs, ms) ==
  IF ~d.valid THEN d
  ELSE LET total == d.ms + ms
       IN  DateMs(LocalToInstant(host,
                    LocalNaive(d) + secs + total \div 1000),
                  total % 1000)

add(d, n, unit) ==
  CASE unit = "days" -> SetDatePlus(d, n)
    [] unit = "hours" -> SetLocalPlus(d, n * 3600, 0)
    [] unit = "minutes" -> SetLocalPlus(d, n * 60, 0)
    [] unit = "seconds" -> SetLocalPlus(d, n, 0)
    [] unit = "milliseconds" -> SetLocalPlus(d, 0, n)
    [] OTHER -> d

subtract(d, n, unit) == add(d, 0 - n, unit)

\* Milliseconds in a unit: the map of diff.
UnitMs(unit) ==
  CASE unit = "milliseconds" -> 1
    [] unit = "seconds" -> 1000
    [] unit = "minutes" -> 60000
    [] unit = "hours" -> 3600000
    [] unit = "days" -> 86400000
    [] OTHER -> 1

\* d1.getTime() - d2.getTime(), in milliseconds
DeltaMs(d1, d2) == (d1.t - d2.t) * 1000 + (d1.ms - d2.ms)

\* diff with the quotient truncated toward zero instead of floored.
diffTruncated(d1, d2, unit) ==
  IF d1.valid /\ d2.valid
  THEN Num(IF DeltaMs(d1, d2) >= 0 THEN DeltaMs(d1, d2) \div UnitMs(unit)
           ELSE 0 - ((0 - DeltaMs(d1, d2)) \div UnitMs(unit)))
  ELSE NaN

\* Math.floor(delta / (map[unit] || 1)); NaN when either Date is invalid.
diff(d1, d2, unit) ==
  IF d1.valid /\ d2.valid
  THEN Num(DeltaMs(d1, d2) \div UnitMs(unit))
  ELSE NaN

\* The comparison with <= in place of <.
isBeforeOrEqual(d1, d2) == d1.valid /\ d2.valid /\ DeltaMs(d1, d2) <= 0

\* getTime() < getTime(): a comparison with NaN is false.
isBefore(d1, d2) == d1.valid /\ d2.valid /\ DeltaMs(d1, d2) < 0

isAfter(d1, d2) == d1.valid /\ d2.valid /\ DeltaMs(d1, d2) > 0

\* startOf on the host-local fields (setHours / setMinutes / setSeconds).
startOfLocal(d, unit) ==
  IF ~d.valid THEN d
  ELSE CASE unit = "day" ->
              DateOf(LocalToInstant(host,
                       LocalNaive(d) - (LocalNaive(d) % 86400)))
         [] unit = "hour" ->
              DateOf(LocalToInstant(host,
                       LocalNaive(d) - (LocalNaive(d) % 3600)))
         [] unit = "minute" -> DateOf(d.t - (d.t % 60))
         [] OTHER -> d

\* setUTCHours(0, 0, 0, 0) / setUTCMinutes(0, 0, 0) / setUTCSeconds(0, 0)
startOf(d, unit) ==
  IF ~d.valid THEN d
  ELSE CASE unit = "day" -> DateOf(d.t - (d.t % 86400))
         [] unit = "hour" -> DateOf(d.t - (d.t % 3600))
         [] unit = "minute" -> DateOf(d.t - (d.t % 60))
         [] OTHER -> d

Abs(x) == IF x < 0 THEN 0 - x ELSE x

\* Intl.RelativeTimeFormat("en-US", {numeric: "auto"}).format(value, unit):
\* "in N units" / "N units ago", and the words the locale has for a day
\* count of -1, 0 and 1.
rtfFormat(value, unit) ==
  [kind |-> "relative",
   count |-> Abs(value),
   unit |-> unit,
   direction |-> IF value < 0 THEN "ago" ELSE "in",
   word |-> IF unit = "day" /\ value = -1 THEN "yesterday"
            ELSE IF unit = "day" /\ value = 1 THEN "tomorrow"
            ELSE IF value = 0 THEN "now" ELSE ""]

\* The try body throws when the locale is rejected (the constructor) and
\* when the delta is NaN (rtf.format); the catch returns "Invalid Date".
fromNow(date, now, locale) ==
  IF locale \notin HostLocales \/ ~date.valid \/ ~now.valid
  THEN [kind |-> "text", text |-> "Invalid Date"]
  ELSE LET deltaSec == DeltaMs(date, now) \div 1000
           abs == Abs(deltaSec)
       IN  IF abs < 10 THEN [kind |-> "text", text |-> "just now"]
           ELSE IF abs < 60
           THEN (IF deltaSec < 0 THEN rtfFormat(-1, "second")
                 ELSE rtfFormat(1, "second"))
           ELSE IF abs < 3600 THEN rtfFormat(deltaSec \div 60, "minute")
           ELSE IF abs < 86400 THEN rtfFormat(deltaSec \div 3600, "hour")
           ELSE rtfFormat(deltaSec \div 86400, "day")

-----------------------------------------------------------------------------
(* The calls a program makes: inputs are drawn from small sets.            *)

\* Local timezones the process may run in.
HostLocalZones == {"UTC", "America/New_York", "Asia/Tokyo"}

\* Zone ids passed by callers; "Invalid/Timezone" is rejected by the host.
ZoneIds == HostZones \cup {"Invalid/Timezone"}

\* Sample instants (all in 2024): the repository's test instant, the instants
\* around New York's transitions, instants whose wall clock in another zone
\* falls into the hour New York skips, and instants near a year boundary.
TestNow == UTC(2024, 3, 21, 12, 0, 0)

Instants ==
  { TestNow,
    UTC(2024, 3, 10, 6, 59, 59), UTC(2024, 3, 10, 7, 0, 0),
    UTC(2024, 11, 3, 5, 59, 59), UTC(2024, 11, 3, 6, 0, 0),
    UTC(2024, 3, 9, 17, 30, 0), UTC(2024, 3, 10, 2, 30, 0),
    UTC(2024, 7, 1, 0, 0, 0),
    UTC(2024, 12, 31, 23, 59, 59) }

Dates == {DateOf(t) : t \in Instants} \cup {InvalidDate}

MinYear == 2023
MaxYear == 2025
Years == MinYear .. MaxYear

\* Locale tags passed by callers; "en_US" is not a well-formed tag.
Locales == {"en-US", "en_US"}

Hour12Options == {"undefined", "true", "false"}

\* "YYYY-MM-DD HH:mm:ss"
DefaultPattern ==
  <<"Y", "Y", "Y", "Y", "-", "M", "M", "-", "D",
    "D", " ", "H", "H", ":", "m", "m", ":", "s", "s">>

\* "YYYY-YY"
YearYearPattern == <<"Y", "Y", "Y", "Y", "-", "Y", "Y">>

\* "HH:mm:ss"
TimePattern == <<"H", "H", ":", "m", "m", ":", "s", "s">>

\* "HH:mm"
HourMinutePattern == <<"H", "H", ":", "m", "m">>

\* "hh:mm:ss A"
Clock12Pattern == <<"h", "h", ":", "m", "m", ":", "s", "s", " ", "A">>

\* "hh:mm a"
Clock12LowerPattern == <<"h", "h", ":", "m", "m", " ", "a">>

\* "dddd, MMMM DD, YYYY"
LongNamesPattern ==
  <<"d", "d", "d", "d", ",", " ", "M", "M", "M",
    "M", " ", "D", "D", ",", " ", "Y", "Y", "Y", "Y">>

\* "ddd, MMM DD, YY"
ShortNamesPattern ==
  <<"d", "d", "d", ",", " ", "M", "M",
    "M", " ", "D", "D", ",", " ", "Y", "Y">>

\* "Hello World"
HelloWorldPattern ==
  <<"H", "e", "l", "l", "o",
    " ", "W", "o", "r", "l", "d">>

\* "HH Z"
ZonePattern == <<"H", "H", " ", "Z">>

\* ""
EmptyPattern == <<>>


NamedPatterns ==
  { DefaultPattern, YearYearPattern, TimePattern, HourMinutePattern,
    Clock12Pattern, Clock12LowerPattern, LongNamesPattern,
    ShortNamesPattern, HelloWorldPattern, ZonePattern, EmptyPattern }

\* Every pattern of at most MaxPatLen characters over a small alphabet of
\* token letters and one literal.
MaxPatLen == 4
PatternAlphabet == {"Y", "M", "d", "h", "x"}
ShortPatterns == UNION {[1 .. n -> PatternAlphabet] : n \in 0 .. MaxPatLen}

\* format is called with every option combination on the named patterns,
\* and with default options on the short patterns.
FormatInputs ==
  [date : Dates, fmt : NamedPatterns, locale : Locales, timeZone : ZoneIds,
   hour12 : Hour12Options]
  \cup
  [date : {DateOf(TestNow), DateOf(UTC(2024, 12, 31, 23, 59, 59))},
   fmt : ShortPatterns, locale : {"en-US"},
   timeZone : {"UTC", "Asia/Tokyo"}, hour12 : {"undefined"}]

\* Second arguments of the two-date operations: the first argument moved by
\* whole and fractional seconds, minutes, hours and days.
MaxAmount == 2
Amounts == (0 - MaxAmount) .. MaxAmount
Units == {"days", "hours", "minutes", "seconds", "milliseconds"}
StartUnits == {"day", "hour", "minute"}

\* The unit argument of diff; "undefined" is the argument left out.
DiffUnits == Units \cup {"undefined"}

Shifted(d, secs, ms) ==
  IF ~d.valid THEN d
  ELSE DateMs(d.t + secs + (d.ms + ms) \div 1000, (d.ms + ms) % 1000)

Shifts ==
  { <<0, 0>>, <<0, 1>>, <<-5, 0>>, <<-9, -500>>, <<-10, 0>>, <<9, 500>>,
    <<-60, 0>>, <<60, 0>>, <<-90, 0>>, <<90, 0>>, <<-1800, 0>>,
    <<-7200, 0>>, <<7200, 0>>, <<-5400, 0>>, <<5400, 0>>,
    <<-86400, 0>>, <<86400, 0>>, <<-172800, 0>>, <<-129600, 0>> }

DatePairs ==
  {<<Shifted(d, s[1], s[2]), d>> : d \in Dates, s \in Shifts}
  \cup {<<InvalidDate, DateOf(TestNow)>>, <<DateOf(TestNow), InvalidDate>>}

\* Dates with a millisecond part, for the operations that keep it, and an
\* instant that is midnight in Asia/Tokyo.
MsDates ==
  Dates \cup {DateMs(TestNow, 250), DateMs(TestNow + 59, 999),
              DateOf(UTC(2024, 3, 20, 15, 0, 0))}

\* The relation between the caller's Date object and the objects of an
\* operation: date is the value the caller's object holds when the operation
\* returns, and returned tells which object is returned: "date" (the
\* caller's own object), "d" (the operation's working object), "new"
\* (another newly constructed object) or "none" (the result is not a Date).
NoObjects == [date |-> InvalidDate, returned |-> "none"]

\* const d = date, the working object being the caller's own.
NewDateAliased == "date"

\* const d = new Date(date): the working object is a new object, distinct
\* from the caller's.
NewDate == "d"

\* The objects after an operation called with a Date holding `date', whose
\* working object d holds `final' when it returns.
Objects(date, final, returned) ==
  LET On(d) ==
        [date |-> IF d = "date" THEN final ELSE date,
         returned |-> IF returned = "d" THEN d ELSE returned]
  IN  On(NewDate)

\* No loop is running.
NoFrame == [d |-> InvalidDate, end |-> InvalidDate, transitions |-> <<>>]

Init ==
  /\ host \in HostLocalZones
  /\ pc = "idle"
  /\ op = "none"
  /\ args = [none |-> TRUE]
  /\ result = [kind |-> "none"]
  /\ frame = NoFrame
  /\ objects = NoObjects

CallCreateMoment ==
  /\ pc = "idle"
  /\ \E date \in MsDates :
       /\ op' = "createMoment"
       /\ args' = [date |-> date]
       /\ result' = [kind |-> "date", date |-> createMoment(date)]
  /\ objects' = Objects(args'.date, result'.date, "d")
  /\ pc' = "returned"
  /\ UNCHANGED <<host, frame>>

CallFormat ==
  /\ pc = "idle"
  /\ \E in \in FormatInputs :
       LET r == format(in.date, in.fmt, in.locale, in.timeZone, in.hour12)
       IN  /\ op' = "format"
           /\ args' = in
           /\ result' = IF r.threw THEN [kind |-> "throws"]
                        ELSE [kind |-> "text", text |-> r.value]
  /\ pc' = "returned"
  /\ objects' = Objects(args'.date, args'.date, "none")
  /\ UNCHANGED <<host, frame>>

CallToTimezone ==
  /\ pc = "idle"
  /\ \E date \in MsDates, timeZone \in ZoneIds, midnight24 \in BOOLEAN :
       /\ op' = "toTimezone"
       /\ args' = [date |-> date, timeZone |-> timeZone,
                   midnight24 |-> midnight24]
       /\ result' = [kind |-> "date",
                     date |-> toTimezone(date, timeZone, midnight24)]
  /\ pc' = "returned"
  /\ objects' = Objects(args'.date, args'.date, "new")
  /\ UNCHANGED <<host, frame>>

CallAdd ==
  /\ pc = "idle"
  /\ \E date \in MsDates, n \in Amounts, unit \in Units :
       /\ op' = "add"
       /\ args' = [date |-> date, n |-> n, unit |-> unit]
       /\ result' = [kind |-> "date", date |-> add(date, n, unit)]
  /\ pc' = "returned"
  /\ objects' = Objects(args'.date, result'.date, "d")
  /\ UNCHANGED <<host, frame>>

CallSubtract ==
  /\ pc = "idle"
  /\ \E date \in MsDates, n \in Amounts, unit \in Units :
       /\ op' = "subtract"
       /\ args' = [date |-> date, n |-> n, unit |-> unit]
       /\ result' = [kind |-> "date", date |-> subtract(date, n, unit)]
  /\ pc' = "returned"
  /\ objects' = Objects(args'.date, result'.date, "d")
  /\ UNCHANGED <<host, frame>>

CallDiff ==
  /\ pc = "idle"
  /\ \E p \in DatePairs, unit \in DiffUnits :
       /\ op' = "diff"
       /\ args' = [date1 |-> p[1], date2 |-> p[2], unit |-> unit]
       /\ result' = [kind |-> "number", number |-> diff(p[1], p[2], unit)]
  /\ pc' = "returned"
  /\ objects' = Objects(args'.date1, args'.date1, "none")
  /\ UNCHANGED <<host, frame>>

CallIsBefore ==
  /\ pc = "idle"
  /\ \E p \in DatePairs :
       /\ op' = "isBefore"
       /\ args' = [date1 |-> p[1], date2 |-> p[2]]
       /\ result' = [kind |-> "boolean", boolean |-> isBefore(p[1], p[2])]
  /\ pc' = "returned"
  /\ objects' = Objects(args'.date1, args'.date1, "none")
  /\ UNCHANGED <<host, frame>>

CallIsAfter ==
  /\ pc = "idle"
  /\ \E p \in DatePairs :
       /\ op' = "isAfter"
       /\ args' = [date1 |-> p[1], date2 |-> p[2]]
       /\ result' = [kind |-> "boolean", boolean |-> isAfter(p[1], p[2])]
  /\ pc' = "returned"
  /\ objects' = Objects(args'.date1, args'.date1, "none")
  /\ UNCHANGED <<host, frame>>

CallStartOf ==
  /\ pc = "idle"
  /\ \E date \in MsDates, unit \in StartUnits :
       /\ op' = "startOf"
       /\ args' = [date |-> date, unit |-> unit]
       /\ result' = [kind |-> "date", date |-> startOf(date, unit)]
  /\ pc' = "returned"
  /\ objects' = Objects(args'.date, result'.date, "d")
  /\ UNCHANGED <<host, frame>>

CallFromNow ==
  /\ pc = "idle"
  /\ \E p \in DatePairs, locale \in Locales :
       /\ op' = "fromNow"
       /\ args' = [date |-> p[1], now |-> p[2], locale |-> locale]
       /\ result' = [kind |-> "phrase",
                     phrase |-> fromNow(p[1], p[2], locale)]
  /\ pc' = "returned"
  /\ objects' = Objects(args'.date, args'.date, "none")
  /\ UNCHANGED <<host, frame>>

CallGetTimezoneInfo ==
  /\ pc = "idle"
  /\ \E date \in Dates, timeZone \in ZoneIds :
       /\ op' = "getTimezoneInfo"
       /\ args' = [date |-> date, timeZone |-> timeZone]
       /\ result' = [kind |-> "info", info |-> getTimezoneInfo(date, timeZone)]
  /\ pc' = "returned"
  /\ objects' = Objects(args'.date, args'.date, "none")
  /\ UNCHANGED <<host, frame>>

CallGetTimezoneOffset ==
  /\ pc = "idle"
  /\ \E date \in Dates, timeZone \in ZoneIds :
       /\ op' = "getTimezoneOffset"
       /\ args' = [date |-> date, timeZone |-> timeZone]
       /\ result' = [kind |-> "number",
                     number |-> getTimezoneOffset(date, timeZone)]
  /\ pc' = "returned"
  /\ objects' = Objects(args'.date, args'.date, "none")
  /\ UNCHANGED <<host, frame>>

CallIsDST ==
  /\ pc = "idle"
  /\ \E now \in Dates \ {InvalidDate}, timeZone \in ZoneIds :
       /\ op' = "isDST"
       /\ args' = [now |-> now, timeZone |-> timeZone]
       /\ result' = [kind |-> "boolean", boolean |-> isDST(now, timeZone)]
  /\ pc' = "returned"
  /\ objects' = NoObjects
  /\ UNCHANGED <<host, frame>>

CallGetDSTTransitions ==
  /\ pc = "idle"
  /\ \E timeZone \in ZoneIds, year \in Years :
       LET r == getDSTTransitions(timeZone, year)
       IN  /\ op' = "getDSTTransitions"
           /\ args' = [timeZone |-> timeZone, year |-> year]
           /\ IF r.returns
              THEN /\ result' = [kind |-> "window", window |-> r.window]
                   /\ frame' = NoFrame
                   /\ pc' = "returned"
              ELSE /\ result' = result
                   /\ frame' = r.frame
                   /\ pc' = "scan"
  /\ UNCHANGED <<host, objects>>

\* for (d = start; d <= end; d.setDate(d.getDate() + 1)) { ... }
ScanStep ==
  /\ pc = "scan"
  /\ frame.d.t <= frame.end.t
  /\ frame' = ScanBody(frame, args.timeZone)
  /\ UNCHANGED <<host, pc, op, args, result, objects>>

\* The loop is over: return {start: transitions[0] || null, end: ...}.
ScanReturn ==
  /\ pc = "scan"
  /\ ~(frame.d.t <= frame.end.t)
  /\ result' = [kind |-> "window", window |-> Window(frame.transitions)]
  /\ pc' = "returned"
  /\ UNCHANGED <<host, op, args, frame, objects>>

Next ==
  \/ CallCreateMoment
  \/ CallFormat
  \/ CallToTimezone
  \/ CallAdd
  \/ CallSubtract
  \/ CallDiff
  \/ CallIsBefore
  \/ CallIsAfter
  \/ CallStartOf
  \/ CallFromNow
  \/ CallGetTimezoneInfo
  \/ CallGetTimezoneOffset
  \/ CallIsDST
  \/ CallGetDSTTransitions
  \/ ScanStep
  \/ ScanReturn

Spec == Init /\ [][Next]_vars

-----------------------------------------------------------------------------
(* Properties.                                                             *)

Returned(name) == pc = "returned" /\ op = name

\* C1: no public operation raises an exception, whatever the instant and the
\* zone id (the locale being one the host accepts); in particular format of
\* a valid instant with a zone id the host rejects returns a string.
C1_NoOperationRaises ==
  (pc = "returned" /\ (op \in {"format", "fromNow"}
                         => args.locale \in HostLocales))
    => result.kind # "throws"

C3_UnknownZoneFallbacks ==
  /\ (Returned("getTimezoneInfo") /\ args.date.valid
        /\ args.timeZone \notin HostZones)
       => result.info = [name |-> args.timeZone, offset |-> Num(0),
                         isDST |-> FALSE, abbreviation |-> "UTC"]
  /\ (Returned("getTimezoneOffset") /\ args.date.valid
        /\ args.timeZone \notin HostZones)
       => result.number = Num(0)
  /\ (op = "getDSTTransitions" /\ args.timeZone \notin HostZones)
       => /\ pc = "returned"
          /\ ~result.window.hasStart
          /\ ~result.window.hasEnd

C3_Witness ==
  /\ Returned("getDSTTransitions")
  /\ args.timeZone = "Invalid/Timezone"
  /\ args.year = 2024
  /\ ~result.window.hasStart

\* C4: for zone "UTC", every valid instant and every year, getTimezoneOffset
\* is 0, getTimezoneInfo has offset 0 and isDST false, and getDSTTransitions
\* is {start: null, end: null}.
C4_UTCHasNoOffsetAndNoDST ==
  /\ (Returned("getTimezoneOffset") /\ args.date.valid
        /\ args.timeZone = "UTC")
       => result.number = Num(0)
  /\ (Returned("getTimezoneInfo") /\ args.date.valid
        /\ args.timeZone = "UTC")
       => (result.info.offset = Num(0) /\ ~result.info.isDST)
  /\ (op = "getDSTTransitions" /\ args.timeZone = "UTC")
       => /\ pc = "returned"
          /\ ~result.window.hasStart
          /\ ~result.window.hasEnd

C4_Witness ==
  /\ Returned("getTimezoneInfo")
  /\ host = "Asia/Tokyo"
  /\ args.timeZone = "UTC"
  /\ args.date = DateOf(TestNow)
  /\ result.info.offset = Num(0)

\* The tokens of the format language (the table of tokens, and "Z").
FormatTokens ==
  { Rep("Y", 4), Rep("Y", 2), Rep("M", 4), Rep("M", 3), Rep("M", 2),
    Rep("D", 2), Rep("d", 4), Rep("d", 3), Rep("H", 2), Rep("h", 2),
    Rep("m", 2), Rep("s", 2), <<"A">>, <<"a">>, <<"Z">> }

\* The longest token that starts at position i of fmt, << >> when none does.
LongestTokenAt(fmt, i) ==
  LET fits == {tok \in FormatTokens : HasAt(fmt, tok, i)}
  IN  IF fits = {} THEN <<>>
      ELSE CHOOSE tok \in fits : \A other \in fits : Len(other) <= Len(tok)

\* The left-to-right rendering that substitutes the longest token at every
\* position it reaches and copies every other character.
RECURSIVE LongestMatchRender(_, _, _)
LongestMatchRender(fmt, i, tokenMap) ==
  IF i > Len(fmt) THEN <<>>
  ELSE LET tok == LongestTokenAt(fmt, i)
       IN  IF tok = <<>>
           THEN <<fmt[i]>> \o LongestMatchRender(fmt, i + 1, tokenMap)
           ELSE tokenMap[tok]
                  \o LongestMatchRender(fmt, i + Len(tok), tokenMap)

\* The call reached the token substitution: valid instant, accepted zone
\* and locale.
Substituted ==
  /\ Returned("format")
  /\ args.date.valid
  /\ result.kind = "text"

\* C5: format scans the pattern left to right and substitutes, at every
\* position, the longest token that starts there ("YYYY" is never consumed
\* as "YY" + "YY", "MMMM" before "MMM" before "MM", "dddd" before "ddd");
\* for an instant in 2024, "YYYY-YY" yields "2024-24".
C5_LongestTokenFirst ==
  Substituted =>
    /\ result.text
         = LongestMatchRender(args.fmt, 1,
             TokenMap(args.date, args.fmt, args.timeZone, args.hour12))
    /\ (args.fmt = YearYearPattern /\ args.timeZone = "UTC"
          /\ UTCYear(args.date.t) = 2024)
         => result.text = <<"2", "0", "2", "4", "-", "2", "4">>

C5_Witness ==
  /\ Substituted
  /\ args.fmt = Rep("Y", 4)
  /\ args.timeZone = "UTC"
  /\ result.text = <<"2", "0", "2", "4">>

\* Characters that occur in no token and in no rendered value.
LiteralChars == {"x", "-", ":", ",", " "}

IsLiteralChar(c) == c \in LiteralChars

\* No token occurs anywhere in fmt.
TokenFree(fmt) ==
  \A i \in 1 .. Len(fmt) : \A tok \in FormatTokens : ~HasAt(fmt, tok, i)

\* C6: every pattern character that is not part of a recognised token is
\* copied to the output unchanged and in place; a pattern without tokens
\* (such as "Hello World") is returned as is, and the empty pattern yields
\* the empty string.
C6_LiteralsCopiedThrough ==
  Substituted =>
    /\ TokenFree(args.fmt) => result.text = args.fmt
    /\ SelectSeq(result.text, IsLiteralChar)
         = SelectSeq(args.fmt, IsLiteralChar)

C6_Witness ==
  /\ Substituted
  /\ args.fmt = HelloWorldPattern
  /\ result.text = <<"H", "e", "l", "l", "o", " ", "W", "o", "r", "l", "d">>

\* The text "HH:mm:ss" / "HH:mm" of a wall clock.
TwoDigits(n) == <<Digits[(n \div 10) + 1], Digits[(n % 10) + 1]>>

ClockText(c, withSeconds) ==
  TwoDigits(c.hour) \o <<":">> \o TwoDigits(c.minute)
    \o (IF withSeconds THEN <<":">> \o TwoDigits(c.second) ELSE <<>>)

\* C7: for a valid instant t and a supported zone z whose offset at t is o
\* minutes, format(t, "HH:mm:ss", {timeZone: z}) is the time of day of t
\* shifted by o minutes; 2024-03-21T12:00:00Z gives "21:00:00" in Asia/Tokyo
\* and "08:00:00" in America/New_York, and 2024-03-10T07:00:00Z gives "03:00"
\* for "HH:mm" in America/New_York.
C7_WallClockInZone ==
  (Substituted /\ args.timeZone \in HostZones
     /\ args.fmt \in {TimePattern, HourMinutePattern})
    => result.text
         = ClockText(FieldsOf(args.date.t
                                + ZoneOffset(args.timeZone, args.date.t) * 60),
                     args.fmt = TimePattern)

\* C8: for zone "America/New_York", getTimezoneInfo(t).isDST is true exactly
\* when the offset computed for t differs from -300; at 2024-03-10T06:59:59Z
\* it reports isDST false with offset -300, and at 2024-03-10T07:00:00Z isDST
\* true with offset -240.
C8_NewYorkDST ==
  (Returned("getTimezoneInfo") /\ args.timeZone = "America/New_York"
     /\ args.date.valid)
    => /\ result.info.isDST <=> (result.info.offset # Num(-300))
       /\ args.date.t = UTC(2024, 3, 10, 6, 59, 59)
            => (~result.info.isDST /\ result.info.offset = Num(-300))
       /\ args.date.t = UTC(2024, 3, 10, 7, 0, 0)
            => (result.info.isDST /\ result.info.offset = Num(-240))

\* C9: getDSTTransitions("America/New_York", 2024) returns exactly
\* {start: 2024-03-10T07:00:00Z, end: 2024-11-03T06:00:00Z}, provided the
\* host lists America/New_York as a supported zone.
C9_NewYork2024Constants ==
  (op = "getDSTTransitions" /\ args.timeZone = "America/New_York"
     /\ args.year = 2024 /\ "America/New_York" \in SupportedValues)
    => /\ pc = "returned"
       /\ result.window
            = [start |-> [valid |-> TRUE, t |-> 1710054000, ms |-> 0],
               end |-> [valid |-> TRUE, t |-> 1730613600, ms |-> 0],
               hasStart |-> TRUE, hasEnd |-> TRUE]

C9_Witness ==
  /\ Returned("getDSTTransitions")
  /\ args.timeZone = "America/New_York"
  /\ args.year = 2024
  /\ host = "America/New_York"
  /\ result.window.hasEnd

\* Zones of the host's database with exactly one DST period in a year.
OneDSTPeriodZones == {"America/New_York", "Europe/London"}

\* Whether the zone's offset at instant t differs from its offset a day
\* earlier.
FlagFlipsOn(z, t) == ZoneOffset(z, t) # ZoneOffset(z, t - 86400)

\* C10: for a supported zone with exactly one DST period in the year, the
\* scan of getDSTTransitions discovers exactly 2 transition days within the
\* year, in chronological order, and returns them as start and end with
\* start before end; both are days on which the DST flag differs from the
\* previous day's flag.
C10_ScanFindsTheTwoTransitions ==
  (Returned("getDSTTransitions") /\ args.timeZone \in OneDSTPeriodZones
     /\ Len(frame.transitions) > 0)
    => /\ Len(frame.transitions) = 2
       /\ result.window.hasStart /\ result.window.hasEnd
       /\ result.window.start.t < result.window.end.t
       /\ FlagFlipsOn(args.timeZone, result.window.start.t)
       /\ FlagFlipsOn(args.timeZone, result.window.end.t)

\* Supported zones other than UTC that observe one offset all year: their
\* DST flag is the same on every day, so the scan detects no flip.
NoDSTZones ==
  {z \in SupportedValues \ {"UTC"} : Cardinality(ZoneOffsets(z)) = 1}

\* C11: for a supported zone other than UTC whose DST flag is the same on
\* every day of the scanned year (no flip detected), getDSTTransitions
\* returns {start: null, end: null}.
C11_NoFlipMeansNoTransitions ==
  (Returned("getDSTTransitions") /\ args.timeZone \in NoDSTZones)
    => (~result.window.hasStart /\ ~result.window.hasEnd)

\* C12: for every instant (valid or invalid) and every zone id (supported or
\* not), getTimezoneInfo(t, z).offset equals getTimezoneOffset(t, z).
C12_OffsetConsistentAcrossOperations ==
  /\ Returned("getTimezoneInfo")
       => result.info.offset = getTimezoneOffset(args.date, args.timeZone)
  /\ Returned("getTimezoneOffset")
       => result.number = getTimezoneInfo(args.date, args.timeZone).offset

\* C13: getTimezoneOffset returns 0 whenever the zone id is unknown or the
\* rendered text cannot be parsed back into an instant (as for an invalid
\* input instant); the result is never NaN.
C13_OffsetIsZeroOnAnyFailure ==
  Returned("getTimezoneOffset")
    => /\ (args.timeZone \notin HostZones \/ ~args.date.valid)
            => result.number = Num(0)
       /\ ~result.number.nan

IsDigit(c) == \E i \in 1 .. Len(Digits) : Digits[i] = c

DigitValue(c) == (CHOOSE i \in 1 .. Len(Digits) : Digits[i] = c) - 1

\* The number a text of decimal digits denotes.
RECURSIVE ToNumber(_)
ToNumber(text) ==
  IF text = <<>> THEN 0
  ELSE ToNumber(SubSeq(text, 1, Len(text) - 1)) * 10
         + DigitValue(text[Len(text)])

\* Whether text has the shape "dddd-dd-dd dd:dd:dd".
DateTimeShape(text) ==
  /\ Len(text) = 19
  /\ text[5] = "-" /\ text[8] = "-" /\ text[11] = " "
  /\ text[14] = ":" /\ text[17] = ":"
  /\ \A i \in (1 .. 19) \ {5, 8, 11, 14, 17} : IsDigit(text[i])

\* new Date(text) for a text "YYYY-MM-DD HH:mm:ss": it is not the ISO format
\* (no "T", no zone designator), and the host's fallback parser reads its
\* fields as a wall clock in the host's LOCAL zone; any other text, or a
\* field out of range, gives an invalid Date.
ParseDateTimeString(text) ==
  LET Read(y, m, d, h, mi, s) ==
        IF m \in 1 .. 12 /\ d \in 1 .. 31 /\ h \in 0 .. 23
             /\ mi \in 0 .. 59 /\ s \in 0 .. 59
        THEN LocalDate(y, m - 1, d, h, mi, s)
        ELSE InvalidDate
  IN  IF ~DateTimeShape(text) THEN InvalidDate
      ELSE Read(ToNumber(SubSeq(text, 1, 4)), ToNumber(SubSeq(text, 6, 7)),
                ToNumber(SubSeq(text, 9, 10)), ToNumber(SubSeq(text, 12, 13)),
                ToNumber(SubSeq(text, 15, 16)), ToNumber(SubSeq(text, 18, 19)))

\* format(s, "YYYY-MM-DD HH:mm:ss", {timeZone: "UTC"}) for a string s.
ReformatUTC(s) ==
  format(ParseDateTimeString(s), DefaultPattern, "en-US", "UTC", "undefined")

\* C14: for every valid instant t, with s = format(t, "YYYY-MM-DD HH:mm:ss",
\* {timeZone: "UTC"}), format(s, "YYYY-MM-DD HH:mm:ss", {timeZone: "UTC"})
\* equals s, whatever the host's local timezone is.
C14_UTCFormatRoundTrip ==
  (Returned("format") /\ args.date.valid /\ args.fmt = DefaultPattern
     /\ args.timeZone = "UTC" /\ args.locale = "en-US"
     /\ args.hour12 = "undefined")
    => ReformatUTC(result.text) = Value(result.text)

\* Whether text ends with part.
EndsWith(text, part) ==
  /\ Len(text) >= Len(part)
  /\ SubSeq(text, Len(text) - Len(part) + 1, Len(text)) = part

\* The 12-hour clock is asked for: hour12 is true, or is not given and the
\* pattern contains "a", "A" or "hh".
TwelveHourClockAsked(fmt, hour12) ==
  \/ hour12 = "true"
  \/ /\ hour12 = "undefined"
     /\ \E part \in {<<"a">>, <<"A">>, <<"h", "h">>} : Contains(fmt, part)

\* The hour h on the 12-hour clock.
TwelveHour(h) == IF h % 12 = 0 THEN 12 ELSE h % 12

\* Whether the text of a pattern that ends with "A" or "a" carries a day
\* period.
HasDayPeriod(text) ==
  \E p \in {<<"A", "M">>, <<"P", "M">>, <<"a", "m">>, <<"p", "m">>} :
    EndsWith(text, p)

\* C15: format uses the 12-hour clock exactly when hour12 is true, or hour12
\* is not given and the pattern contains "a", "A" or "hh"; an explicitly
\* given hour12 always overrides the pattern.  Observed on "hh:mm:ss A" and
\* "hh:mm a": the day period is rendered, and (in zone UTC) the hour is on
\* the 12-hour clock, exactly in that case.
C15_TwelveHourClockChoice ==
  (Substituted /\ args.fmt \in {Clock12Pattern, Clock12LowerPattern})
    => /\ HasDayPeriod(result.text)
            <=> TwelveHourClockAsked(args.fmt, args.hour12)
       /\ args.timeZone = "UTC"
            => SubSeq(result.text, 1, 2)
                 = TwoDigits(IF TwelveHourClockAsked(args.fmt, args.hour12)
                             THEN TwelveHour(FieldsOf(args.date.t).hour)
                             ELSE FieldsOf(args.date.t).hour)

C15_Witness ==
  /\ Substituted
  /\ args.fmt = Clock12Pattern
  /\ args.hour12 = "false"
  /\ args.timeZone = "UTC"
  /\ args.date = DateOf(UTC(2024, 3, 9, 17, 30, 0))
  /\ result.text = <<"1", "7", ":", "3", "0", ":", "0", "0", " ">>

\* The text "hh:mm:ss A" / "hh:mm a" of a wall clock on the 12-hour clock.
Clock12Text(c, upper) ==
  TwoDigits(TwelveHour(c.hour)) \o <<":">> \o TwoDigits(c.minute)
    \o (IF upper THEN <<":">> \o TwoDigits(c.second) ELSE <<>>)
    \o <<" ">>
    \o (IF upper
        THEN (IF c.hour < 12 THEN <<"A", "M">> ELSE <<"P", "M">>)
        ELSE (IF c.hour < 12 THEN <<"a", "m">> ELSE <<"p", "m">>))

\* C16: for every valid instant and options value (hour12 explicitly false
\* included), "hh" renders the civil hour on the 12-hour clock as two digits
\* in 01..12, "A" renders "AM" below hour 12 and "PM" otherwise, and "a" the
\* same in lower case.  Stated for zone UTC, where the civil hour is the UTC
\* hour of the instant.
C16_TwelveHourTokens ==
  (Substituted /\ args.fmt \in {Clock12Pattern, Clock12LowerPattern}
     /\ args.timeZone = "UTC")
    => result.text
         = Clock12Text(FieldsOf(args.date.t), args.fmt = Clock12Pattern)

\* Date a is a strictly earlier instant than date b (both valid).
StrictlyEarlier(a, b) == a.t < b.t \/ (a.t = b.t /\ a.ms < b.ms)

\* C17: isBefore(a, b) is true exactly when a is a strictly earlier instant
\* than b, and isAfter(a, b) exactly when a is strictly later; both are false
\* for the same instant and when either argument is invalid, so they are
\* never both true.
C17_StrictComparisons ==
  /\ Returned("isBefore")
       => /\ result.boolean
               <=> (args.date1.valid /\ args.date2.valid
                      /\ StrictlyEarlier(args.date1, args.date2))
          /\ ~(result.boolean /\ isAfter(args.date1, args.date2))
  /\ Returned("isAfter")
       => /\ result.boolean
               <=> (args.date1.valid /\ args.date2.valid
                      /\ StrictlyEarlier(args.date2, args.date1))
          /\ ~(result.boolean /\ isBefore(args.date1, args.date2))

C17_Witness ==
  /\ Returned("isBefore")
  /\ args.date1 = DateOf(TestNow)
  /\ args.date2 = DateOf(TestNow)
  /\ ~result.boolean

\* The instant n units after d on the UTC timeline.
MovedOnUTCTimeline(d, n, unit) ==
  CASE unit = "days" -> Shifted(d, n * 86400, 0)
    [] unit = "hours" -> Shifted(d, n * 3600, 0)
    [] unit = "minutes" -> Shifted(d, n * 60, 0)
    [] unit = "seconds" -> Shifted(d, n, 0)
    [] unit = "milliseconds" -> Shifted(d, 0, n)

\* C18: for every valid instant d, integer n and unit u, add(d, n, u) is the
\* instant d + n * (milliseconds in u) on the UTC timeline, whatever the
\* host's local timezone and its DST rules are, and subtract(d, n, u) equals
\* add(d, -n, u).
C18_AddIsUTCArithmetic ==
  /\ (Returned("add") /\ args.date.valid)
       => result.date = MovedOnUTCTimeline(args.date, args.n, args.unit)
  /\ (Returned("subtract") /\ args.date.valid)
       => result.date = add(args.date, 0 - args.n, args.unit)

\* The length of a unit in milliseconds; a unit left out is milliseconds.
MillisecondsIn(unit) ==
  CASE unit \in {"milliseconds", "undefined"} -> 1
    [] unit = "seconds" -> 1000
    [] unit = "minutes" -> 60 * 1000
    [] unit = "hours" -> 60 * 60 * 1000
    [] unit = "days" -> 24 * 60 * 60 * 1000

\* C19: diff(d1, d2, u) is the difference d1 - d2 in milliseconds divided by
\* the length of u and rounded down toward negative infinity (u defaults to
\* milliseconds), so instants exactly k units apart give k or -k; when either
\* argument is invalid the result is NaN.
C19_DiffRoundsDown ==
  Returned("diff")
    => IF args.date1.valid /\ args.date2.valid
       THEN /\ ~result.number.nan
            /\ result.number.v * MillisecondsIn(args.unit)
                 <= DeltaMs(args.date1, args.date2)
            /\ DeltaMs(args.date1, args.date2)
                 < (result.number.v + 1) * MillisecondsIn(args.unit)
       ELSE result.number.nan

C19_Witness ==
  /\ Returned("diff")
  /\ args.unit = "minutes"
  /\ args.date2 = DateOf(TestNow)
  /\ args.date1 = DateOf(TestNow - 90)
  /\ result.number = Num(-2)

\* The length in seconds of the unit of startOf.
StartUnitSeconds(unit) ==
  CASE unit = "day" -> 86400 [] unit = "hour" -> 3600 [] unit = "minute" -> 60

\* C20: for a valid instant d, startOf(d, unit) is the latest instant not
\* after d that lies on a UTC boundary of the unit (all smaller UTC fields
\* and the milliseconds are 0, all larger fields are those of d); hence
\* startOf(startOf(d, u), u) equals startOf(d, u).
C20_StartOfIsUTCBoundary ==
  (Returned("startOf") /\ args.date.valid)
    => /\ result.date.valid
       /\ result.date.ms = 0
       /\ result.date.t % StartUnitSeconds(args.unit) = 0
       /\ result.date.t <= args.date.t
       /\ args.date.t - result.date.t < StartUnitSeconds(args.unit)
       /\ startOf(result.date, args.unit) = result.date

C20_Witness ==
  /\ Returned("startOf")
  /\ args.date = DateMs(TestNow + 59, 999)
  /\ args.unit = "minute"
  /\ result.date = DateOf(TestNow)

\* C21: fromNow(date, now) returns "just now" for every pair of valid
\* instants with date less than 10 seconds before now (now - date < 10000
\* ms), differences that are not whole seconds (such as 9.5 s) included.
C21_JustNowWithinTenSeconds ==
  (Returned("fromNow") /\ args.date.valid /\ args.now.valid
     /\ args.locale = "en-US"
     /\ DeltaMs(args.now, args.date) >= 0
     /\ DeltaMs(args.now, args.date) < 10000)
    => result.phrase = [kind |-> "text", text |-> "just now"]

\* The unit fromNow names for a distance of k seconds, k >= 60.
DistanceUnit(k) ==
  IF k < 3600 THEN "minute" ELSE IF k < 86400 THEN "hour" ELSE "day"

SecondsIn(unit) ==
  CASE unit = "minute" -> 60 [] unit = "hour" -> 3600 [] unit = "day" -> 86400

\* The instant as far after now as date is before it (and conversely), for
\* instants a whole number of seconds apart.
Mirrored(date, now) == DateMs(now.t + (now.t - date.t), date.ms)

\* C22: for every k of at least 60 seconds, fromNow(now - k, now) and
\* fromNow(now + k, now) name the same unit and the same count, the number of
\* whole units contained in k, and differ only in the past/future wording.
C22_SymmetricWholeUnits ==
  (Returned("fromNow") /\ args.date.valid /\ args.now.valid
     /\ args.locale = "en-US" /\ args.date.ms = args.now.ms
     /\ Abs(args.date.t - args.now.t) >= 60)
    => /\ result.phrase.kind = "relative"
       /\ result.phrase.unit = DistanceUnit(Abs(args.date.t - args.now.t))
       /\ result.phrase.count
            = Abs(args.date.t - args.now.t)
                \div SecondsIn(DistanceUnit(Abs(args.date.t - args.now.t)))
       /\ result.phrase.direction
            = (IF args.date.t < args.now.t THEN "ago" ELSE "in")
       /\ fromNow(Mirrored(args.date, args.now), args.now, args.locale).unit
            = result.phrase.unit
       /\ fromNow(Mirrored(args.date, args.now), args.now, args.locale).count
            = result.phrase.count

\* Supported zones whose DST flag is inferred from the reference offsets.
HeuristicZones == HostZones \ {"UTC", "America/New_York"}

\* The offset zone z observes at the start of the first day of month
\* monthIndex (0 = January) of the given year.
ReferenceOffset(z, year, monthIndex) ==
  ZoneOffset(z, LocalDate(year, monthIndex, 1, 0, 0, 0).t)

\* The flag the reference offsets imply for an offset at t.
FlagFromReferences(offset, janOffset, julOffset) ==
  /\ janOffset # julOffset
  /\ offset = Max({janOffset, julOffset})

Ascending(transitions) ==
  \A i \in 1 .. Len(transitions) - 1 : transitions[i].t < transitions[i + 1].t

\* d is 00:00:00 of the given calendar day in the host's local zone.
IsLocalMidnightOf(d, year, month, day) ==
  /\ d.valid
  /\ LocalFields(d).year = year
  /\ LocalFields(d).month = month
  /\ LocalFields(d).day = day
  /\ LocalNaive(d) % 86400 = 0

\* C24: for a supported zone and a valid year, the scan of getDSTTransitions
\* starts at January 1, moves to the next calendar day at every iteration
\* and ends once December 31 has been visited, so every calendar day of the
\* year is visited exactly once in ascending order (365 or 366 iterations);
\* the transitions it records are in ascending date order, with the first
\* returned as start and the second as end.
C24_ScanVisitsEveryDayOnce ==
  [][ /\ (pc = "idle" /\ pc' = "scan")
           => /\ IsLocalMidnightOf(frame'.d, args'.year, 1, 1)
              /\ frame'.transitions = <<>>
      /\ (pc = "scan" /\ pc' = "scan")
           => /\ LocalFields(frame.d).year = args.year
              /\ LocalNaive(frame'.d) = LocalNaive(frame.d) + 86400
              /\ frame'.transitions
                   \in {frame.transitions, Append(frame.transitions, frame.d)}
              /\ Ascending(frame'.transitions)
      /\ (pc = "scan" /\ pc' = "returned")
           => /\ IsLocalMidnightOf(frame.d, args.year + 1, 1, 1)
              /\ result'.window = Window(frame.transitions)
              /\ result'.window.hasStart
                   => result'.window.start = frame.transitions[1]
              /\ result'.window.hasEnd
                   => result'.window.end = frame.transitions[2]
    ]_vars

C24_Witness ==
  /\ Returned("getDSTTransitions")
  /\ host = "America/New_York"
  /\ args.timeZone = "Europe/London"
  /\ args.year = 2024
  /\ IsLocalMidnightOf(frame.d, 2025, 1, 1)
  /\ Len(frame.transitions) = 3

\* C25: for every valid instant t, toTimezone(t, "UTC") returns an instant
\* whose UTC year, month, day, hour, minute and second equal those of t (t
\* with its milliseconds set to 0); for a zone id the host does not
\* recognise, toTimezone(t, z) returns an instant equal to t.
C25_ToTimezoneUTCAndUnknownZone ==
  (Returned("toTimezone") /\ args.date.valid)
    => /\ args.timeZone = "UTC"
            => /\ result.date.valid
               /\ FieldsOf(result.date.t) = FieldsOf(args.date.t)
               /\ result.date.t = args.date.t
               /\ result.date.ms = 0
       /\ args.timeZone \notin HostZones
            => /\ result.date.valid
               /\ result.date.t = args.date.t
               /\ result.date.ms = args.date.ms

C25_Witness ==
  /\ Returned("toTimezone")
  /\ host = "Asia/Tokyo"
  /\ args.timeZone = "UTC"
  /\ args.date = DateMs(TestNow, 250)
  /\ result.date = DateOf(TestNow)

\* The text "dddd, MMMM DD, YYYY" (long) or "ddd, MMM DD, YY" of the civil
\* date c.
NamedDateText(c, long) ==
  (IF long THEN DayNames[c.weekday + 1]
   ELSE SubSeq(DayNames[c.weekday + 1], 1, 3))
    \o <<",", " ">>
    \o (IF long THEN MonthNames[c.month]
        ELSE SubSeq(MonthNames[c.month], 1, 3))
    \o <<" ">> \o TwoDigits(c.day) \o <<",", " ">>
    \o (IF long THEN ToText(c.year) ELSE TwoDigits(c.year % 100))

\* C26: within one format call all date tokens describe the same civil date:
\* for every valid instant and every supported zone (UTC or not), the month
\* named by MMMM and MMM is the month numbered by MM, and the weekday named
\* by dddd and ddd is the weekday of the civil date YYYY-MM-DD in that zone.
C26_DateTokensAgree ==
  (Substituted /\ args.timeZone \in HostZones
     /\ args.fmt \in {LongNamesPattern, ShortNamesPattern})
    => result.text
         = NamedDateText(CivilIn(args.timeZone, args.date.t),
                         args.fmt = LongNamesPattern)

\* The day period of hour h, as "A" renders it on the 12-hour clock.
DayPeriodText(h) == IF h < 12 THEN <<"A", "M">> ELSE <<"P", "M">>

\* C27: token substitution is a single pass over the pattern: the text
\* substituted for a token is never scanned again, so a value that contains
\* token characters (the "a" in "March" and in "Thursday", the "A" in "AM")
\* appears in the output verbatim.  Observed in zone UTC on the patterns with
\* names and on "hh:mm:ss A".
C27_SubstitutionIsSinglePass ==
  (Substituted /\ args.timeZone = "UTC")
    => /\ args.fmt = LongNamesPattern
            => /\ Contains(result.text,
                           MonthNames[FieldsOf(args.date.t).month])
               /\ Contains(result.text,
                           DayNames[FieldsOf(args.date.t).weekday + 1])
               /\ Len(result.text)
                    = Len(MonthNames[FieldsOf(args.date.t).month])
                        + Len(DayNames[FieldsOf(args.date.t).weekday + 1])
                        + 11
       /\ (args.fmt = Clock12Pattern /\ args.hour12 # "false")
            => /\ EndsWith(result.text,
                           DayPeriodText(FieldsOf(args.date.t).hour))
               /\ Len(result.text) = 11

C27_Witness ==
  /\ Substituted
  /\ args.timeZone = "UTC"
  /\ args.fmt = LongNamesPattern
  /\ args.date = DateOf(TestNow)
  /\ result.text
       = <<"T", "h", "u", "r", "s", "d", "a", "y", ",", " ",
           "M", "a", "r", "c", "h", " ", "2", "1", ",", " ",
           "2", "0", "2", "4">>

\* The operations C28 names, and those of them that return the Date they
\* worked on.
DateTakingOperations ==
  {"createMoment", "format", "add", "subtract", "startOf", "toTimezone",
   "diff", "getTimezoneInfo"}

DateReturningOperations == {"add", "subtract", "startOf", "createMoment"}

\* The value the caller's Date object held when the operation was called.
CallerDate == IF op = "diff" THEN args.date1 ELSE args.date

\* C28: no operation modifies the date value passed to it: after
\* createMoment, format, add, subtract, startOf, toTimezone, diff or
\* getTimezoneInfo returns, the caller's Date denotes the same instant as
\* before, and add, subtract, startOf and createMoment return a new Date
\* object rather than the argument itself.
C28_ArgumentIsNotModified ==
  (pc = "returned" /\ op \in DateTakingOperations)
    => /\ objects.date = CallerDate
       /\ op \in DateReturningOperations
            => objects.returned \notin {"date", "none"}

C28_Witness ==
  /\ Returned("add")
  /\ args.date = DateOf(TestNow)
  /\ args.n = 1
  /\ args.unit = "days"
  /\ result.date = DateOf(TestNow + 86400)
  /\ objects.date = DateOf(TestNow)
  /\ objects.returned = "d"

\* C29: toTimezone encodes the civil time the same way for every zone: for
\* every valid instant t and every supported zone z, "UTC" included, the
\* host-local fields of the result (year, month, day, hour, minute, second)
\* are the wall-clock fields of t in z, whatever the host's local timezone
\* is, with the hour in 0..23 and the civil date unchanged when the host
\* renders midnight as hour 24.
C29_ToTimezoneEncodesWallClock ==
  (Returned("toTimezone") /\ args.date.valid /\ args.timeZone \in HostZones)
    => /\ result.date.valid
       /\ LocalFields(result.date) = CivilIn(args.timeZone, args.date.t)

=============================================================================
